---- MODULE Spec2Model ----
(***************************************************************************)
(* Model of the microVM test harness: MicrovmBuilder and SnapshotBuilder   *)
(* (tests/framework/builder.py), the timed API Session                     *)
(* (tests/framework/http.py), the FCMetricsMonitor background thread and   *)
(* the metrics validators (tests/host_tools/fcmetrics.py), the cpuid       *)
(* output check (tests/framework/utils_cpuid.py), and the tests that drive *)
(* snapshot versions, metadata-service tokens and the test matrix.         *)
(***************************************************************************)
EXTENDS Integers, Sequences, FiniteSets, TLC

\* ------------------------------------------------------------------ bounds
\* VMs created in one run of the harness.
MaxVms == 2
\* SnapshotBuilder.create calls in one run of the harness.
MaxSnaps == 2
\* Longest disk list handed to SnapshotBuilder.create.
MaxDisks == 2
\* Requests the tests send themselves in one run (resume, plain requests),
\* besides the one start of a VM and the calls the builders make.
MaxCalls == 1

\* Records the VM writes of its own before and while the monitor runs.
MaxRecords == 3
\* FCMetricsMonitor.timer, the sleep ticks between two flushes (the
\* constructor's default is 60).
Timer == 2
\* Status codes range over -MaxCode..MaxCode.
MaxCode == 600
\* Network devices a test of test_snapshot_version.py asks for, at most.
MaxDevicesNo == 11
\* pause_to_snapshot calls one test makes on its VM.
MaxAttempts == 2
\* Artifacts in one set of a test matrix, at most.
MaxArtifacts == 3
\* The largest utc_timestamp_ms of a record given to validate_fc_metrics; the
\* host's clock is at half of it.
MaxTimestamp == 2004
\* Characters in the name of a metrics group, at most.
MaxNameLen == 3
\* The largest value of a field of a per-device group.
MaxValue == 2
\* The largest num_dev a test expects.
MaxNumDev == 2

\* ------------------------------------------------------- program constants
StatusOk == 200
StatusNoContent == 204
StatusBadRequest == 400
StatusNotFound == 404

\* The outcome of a request that got no response: the socket refused or
\* reset the connection, and the call raises.
NoResponse == 0

\* What comes of a control-plane request: a status code of the external VMM,
\* or no response.
Responses == {StatusNoContent, StatusBadRequest, NoResponse}

\* Names tempfile.mkdtemp can draw: more than the directories ever made (one
\* by the constructor, one by every build call).
DirNames == 1..(MaxVms + 2)

\* The disk lists a test passes to SnapshotBuilder.create: n disk files of
\* distinct base names, n = 0 (the empty list) included, or n distinct disk
\* files the last of which (-1) has the base name of the first and is kept
\* in another directory.
DiskLists == {[i \in 1..n |-> i] : n \in 0..MaxDisks}
             \cup {[i \in 1..n |-> IF i = n THEN 0 - 1 ELSE i] : n \in 2..MaxDisks}

Methods == {"get", "put", "patch"}

VARIABLES
    dirs,        \* temporary directories made by tempfile.mkdtemp so far
    root_path,   \* MicrovmBuilder.root_path
    vms,         \* every Microvm object made by init_microvm, in order
    snaps,       \* every Snapshot returned by SnapshotBuilder.create, in order
    pc,          \* position of the test thread inside the current call
    cur,         \* index in vms of the VM the current call works on
    frame,       \* arguments and locals of the current call
    written,     \* host files written so far: by what, after how many snapshots
    \* Session status predicates
    code,        \* a response status code
    verdict,     \* what the five predicates said of it, once asked
    \* FCMetricsMonitor, its VM and its metrics logger
    running,       \* FCMetricsMonitor.running
    metrics_index, \* FCMetricsMonitor.metrics_index
    tpc,           \* position of the background thread
    spc,           \* position of the caller inside stop()
    emitted,       \* number of records the VM has written to its metrics file
    tpending,      \* the slice the thread's _flush_metrics is iterating over
    spending,      \* the slice the _flush_metrics called by stop() iterates over
    forwarded,     \* records given to the metrics logger, in order, and by whom
    ticks,         \* sleep ticks done in the current pass of run()'s for loop
    flushed_at,    \* number of the record the FlushMetrics of stop() produced
    \* A test reading the metrics of its VM
    life,          \* the VM as the metrics see it: configured, running, exited
    lines,         \* what the test's latest get_all_metrics call returned
    prev_lines,    \* what the call before that one returned
    \* The metadata service as the guests use it
    tokens,        \* session tokens the test was given: the VM that minted each
    curl,          \* the GETs done from guests: token, VM, and what came back
    \* test_snapshot_version.py: one VM, its devices, its snapshot attempts
    tvm,           \* the test's Microvm
    devices_no,    \* the devices_no the test asked for
    attached,      \* devices attached to the VM so far
    vpc,           \* position of the test
    attempts,      \* the pause_to_snapshot calls made: version and outcome
    \* TestMatrix.run_test
    asets,         \* the sizes of the artifact sets, in the order supplied
    cell,          \* the combination run_test is at: an index into each set
    mcalls,        \* the contexts the closure was invoked with, in order
    mpc,           \* position of run_test
    \* validate_fc_metrics
    utc_us,        \* the host's UTC clock when the validation runs, in microseconds
    record,        \* the metrics record given: its timestamp, whether it fits the schema
    schema_checked,\* whether jsonschema.validate has been called
    vres,          \* how validate_fc_metrics ended
    \* _check_cache_topology_x86
    store,         \* the caller's expected_level_1_topology dictionary
    guest,         \* the lines `cpuid -1` prints in the guest
    cres,          \* how the calls of check_guest_cpuid_output made so far ended
    \* FcDeviceMetrics.validate_per_device_metrics
    dev_name,      \* FcDeviceMetrics.dev_name, a string as its characters
    num_dev,       \* FcDeviceMetrics.num_dev
    aggr_supported,\* FcDeviceMetrics.aggr_supported
    fc_metrics,    \* the record given: group name -> (field -> value)
    dres           \* how validate_per_device_metrics ended

builderVars == <<dirs, root_path, vms, snaps, pc, cur, frame, written>>
httpVars == <<code, verdict>>
monVars == <<running, metrics_index, tpc, spc, emitted, tpending, spending,
             forwarded, ticks, flushed_at>>
metVars == <<life, lines, prev_lines>>
tokVars == <<tokens, curl>>
verVars == <<tvm, devices_no, attached, vpc, attempts>>
matVars == <<asets, cell, mcalls, mpc>>
valVars == <<utc_us, record, schema_checked, vres>>
cpuidVars == <<store, guest, cres>>
devVars == <<dev_name, num_dev, aggr_supported, fc_metrics, dres>>
testVars7 == <<devVars>>
testVars6 == <<cpuidVars, testVars7>>
testVars5 == <<valVars, testVars6>>
testVars4 == <<matVars, testVars5>>
testVars3 == <<verVars, testVars4>>
testVars2 == <<tokVars, testVars3>>
testVars == <<metVars, testVars2>>
vars == <<builderVars, httpVars, monVars, testVars>>

NoFrame == [op |-> "none"]

\* ------------------------------------------------------------------- paths
\* A host path: the temporary root it lives under (0: outside any VM root),
\* the subdirectory of the jail ("": none), its base name, and a number that
\* tells the disk images, and the copies of an artifact, apart (0 otherwise).
HostPath(d, n, i) == [dir |-> d, sub |-> "", name |-> n, idx |-> i]

\* The disk file of number i; the file -i has the base name of the file i
\* and lives in another directory.
DiskPath(i) == IF i > 0
               THEN HostPath(0, "disk", i)
               ELSE [dir |-> 0, sub |-> "other", name |-> "disk", idx |-> 0 - i]

\* Microvm.create_jailed_resource: the file is linked into the jail under its
\* base name and the jail-relative path (dir -1) is returned.
JailedPath(p) == [dir |-> -1, sub |-> "", name |-> p.name, idx |-> p.idx]

\* The jail-relative paths "/snapshot/vm.mem" and "/snapshot/vm.vmstate".
MemFilePath == [dir |-> -1, sub |-> "snapshot", name |-> "vm.mem", idx |-> 0]
VmstatePath == [dir |-> -1, sub |-> "snapshot", name |-> "vm.vmstate", idx |-> 0]

\* os.path.join(snapshot_dir, name), snapshot_dir being the directory
\* "snapshot" of the chroot of the VM rooted at root.
SnapshotDirFile(root, n) == [dir |-> root, sub |-> "snapshot", name |-> n, idx |-> 0]

\* The host file a process jailed under root reaches by a jail-relative path.
InChroot(root, p) == [p EXCEPT !.dir = root]

\* The ssh key artifact the tests hand to create, and Artifact.copy(): the
\* n-th copy is a new file beside the original.
SshKey == HostPath(0, "ssh_key", 0)
ArtifactCopy(a, n) == [a EXCEPT !.idx = n]

\* --------------------------------------------------------------- Microvm
\* conftest.init_microvm: a Microvm object rooted at the builder's root_path;
\* its jail and its API socket live under that root.
NewVm(root, kind) ==
    [root |-> root, sock |-> <<root, "run/firecracker.socket">>, kind |-> kind,
     state |-> "NotStarted", hist |-> <<"NotStarted">>,
     jail |-> {}, timed |-> [m \in Methods |-> TRUE], reqs |-> <<>>,
     returned |-> FALSE, snapdir |-> "none", ncalls |-> 0,
     snapshot |-> 0, resume |-> FALSE, untimedAt |-> -1,
     creates |-> <<>>, p2s |-> <<>>]

SetState(v, s) == [v EXCEPT !.state = s, !.hist = Append(@, s)]

\* A request sent through the VM's Session: logged with whether the method
\* it went through was still the duration-limited one, and with the place
\* of the caller ("idle": a call of the test itself).
Sent(v, m, req, status) ==
    [v EXCEPT !.reqs = Append(@, [method |-> m, timed |-> v.timed[m], at |-> pc,
                                   req |-> req, status |-> status])]

\* A request a test sends itself: sent like any other, and counted.
TestCall(v, m, req, status) == [Sent(v, m, req, status) EXCEPT !.ncalls = @ + 1]

RECURSIVE SumOver(_, _)
SumOver(f, n) == IF n = 0 THEN 0 ELSE f[n] + SumOver(f, n - 1)

\* Calls the tests made themselves so far, and create calls so far.
TestCalls == SumOver([i \in 1..Len(vms) |-> vms[i].ncalls], Len(vms))
CreateCalls == SumOver([i \in 1..Len(vms) |-> Len(vms[i].creates)], Len(vms))

\* The VM a test works on: the one it built last (the tests build a VM, use
\* it, and go on to the next), once the builder has returned it.
Held(i) == i = Len(vms) /\ vms[i].returned /\ vms[i].state # "Killed"

Link(v, p) == [v EXCEPT !.jail = @ \cup {p}]

\* Whether the host file can be linked into the jail: it can be missing, and
\* then create_jailed_resource raises.
Linkable == BOOLEAN

\* The current call ends with an exception: nothing is returned, and the
\* exception ends the test (only its teardown follows).
Fail ==
    /\ pc' = "failed"
    /\ cur' = 0
    /\ frame' = NoFrame

\* -------------------------------------------------- MicrovmBuilder.build
\* tempfile.mkdtemp: makes and returns a directory that did not exist.  The
\* random names are interchangeable, so the least unused one stands for the
\* name drawn.
mkdtemp(existing) == CHOOSE d \in DirNames \ existing : \A e \in DirNames \ existing : d <= e

\* MicrovmBuilder.init_root_path: self.root_path = tempfile.mkdtemp(...).
init_root_path ==
    /\ dirs' = dirs \cup {mkdtemp(dirs)}
    /\ root_path' = mkdtemp(dirs)

\* build, line 36: the call starts by allocating a new root.
Build_init_root_path ==
    /\ UNCHANGED <<httpVars, monVars, testVars, written>>
    /\ pc = "idle"
    /\ Len(vms) < MaxVms
    /\ init_root_path
    /\ frame' = [op |-> "build"]
    /\ pc' = "build_38"
    /\ UNCHANGED <<vms, snaps, cur>>

\* build, lines 38-47: the Microvm object is made under root_path and linked
\* to the kernel, rootfs and ssh key.
Build_init_microvm ==
    /\ UNCHANGED <<httpVars, monVars, testVars, written>>
    /\ pc = "build_38"
    /\ vms' = Append(vms, NewVm(root_path, "fresh"))
    /\ cur' = Len(vms) + 1
    /\ pc' = "build_50"
    /\ UNCHANGED <<dirs, root_path, snaps, frame>>

\* build, line 50: vm.spawn().
Build_spawn ==
    /\ UNCHANGED <<httpVars, monVars, testVars, written>>
    /\ pc = "build_50"
    /\ vms' = [vms EXCEPT ![cur] = SetState(@, "Spawned")]
    /\ pc' = "build_52"
    /\ UNCHANGED <<dirs, root_path, snaps, cur, frame>>

\* Mutant of Build_basic_config: build returns the VM without configuring it.
Build_basic_config_skipped ==
    /\ UNCHANGED <<httpVars, monVars, testVars, written>>
    /\ pc = "build_52"
    /\ pc' = "build_61"
    /\ UNCHANGED <<dirs, root_path, vms, snaps, cur, frame>>

\* build, lines 52-60: vm.basic_config(...), which asserts a 204 answer.
Build_basic_config ==
    /\ UNCHANGED <<httpVars, monVars, testVars, written>>
    /\ pc = "build_52"
    /\ \E st \in Responses :
        LET v == Sent(vms[cur], "put", [api |-> "machine_config"], st)
        IN IF st = StatusNoContent
           THEN /\ vms' = [vms EXCEPT ![cur] = SetState(v, "Configured")]
                /\ pc' = "build_61"
                /\ UNCHANGED <<cur, frame>>
           ELSE /\ vms' = [vms EXCEPT ![cur] = v]
                /\ Fail
    /\ UNCHANGED <<dirs, root_path, snaps>>

\* build, line 61: return vm.
Build_return ==
    /\ UNCHANGED <<httpVars, monVars, testVars, written>>
    /\ pc = "build_61"
    /\ vms' = [vms EXCEPT ![cur].returned = TRUE]
    /\ pc' = "idle"
    /\ cur' = 0
    /\ frame' = NoFrame
    /\ UNCHANGED <<dirs, root_path, snaps>>

\* ------------------------------------ MicrovmBuilder.build_from_snapshot
\* Mutant of Bfs_init_root_path: the builder's last root is used again.
Bfs_keeps_root_path ==
    /\ UNCHANGED <<httpVars, monVars, testVars, written>>
    /\ pc = "idle"
    /\ Len(vms) < MaxVms
    /\ UNCHANGED <<dirs, root_path>>
    /\ \E s \in 1..Len(snaps), resume \in BOOLEAN :
        frame' = [op |-> "bfs", snapshot |-> s, resume |-> resume,
                  diff |-> snaps[s].snapshot_type = "DIFF",
                  jailed_mem |-> 0, jailed_vmstate |-> 0, jailed_disks |-> <<>>]
    /\ pc' = "bfs_77"
    /\ UNCHANGED <<vms, snaps, cur>>

\* build_from_snapshot, line 76: the call starts by allocating a new root.
\* The snapshot is one SnapshotBuilder.create returned (index into snaps);
\* the tests pass enable_diff_snapshots = (snapshot_type == DIFF).
Bfs_init_root_path ==
    /\ UNCHANGED <<httpVars, monVars, testVars, written>>
    /\ pc = "idle"
    /\ Len(vms) < MaxVms
    /\ init_root_path
    /\ \E s \in 1..Len(snaps), resume \in BOOLEAN :
        frame' = [op |-> "bfs", snapshot |-> s, resume |-> resume,
                  diff |-> snaps[s].snapshot_type = "DIFF",
                  jailed_mem |-> 0, jailed_vmstate |-> 0, jailed_disks |-> <<>>]
    /\ pc' = "bfs_77"
    /\ UNCHANGED <<vms, snaps, cur>>

\* build_from_snapshot, line 77: init_microvm(self.root_path, ...).
Bfs_init_microvm ==
    /\ UNCHANGED <<httpVars, monVars, testVars, written>>
    /\ pc = "bfs_77"
    /\ vms' = Append(vms, [NewVm(root_path, "restored") EXCEPT
                              !.snapshot = frame.snapshot, !.resume = frame.resume])
    /\ cur' = Len(vms) + 1
    /\ pc' = "bfs_79"
    /\ UNCHANGED <<dirs, root_path, snaps, frame>>

\* build_from_snapshot, line 79: vm.spawn(log_level='Info').
Bfs_spawn ==
    /\ UNCHANGED <<httpVars, monVars, testVars, written>>
    /\ pc = "bfs_79"
    /\ vms' = [vms EXCEPT ![cur] = SetState(@, "Spawned")]
    /\ pc' = "bfs_81"
    /\ UNCHANGED <<dirs, root_path, snaps, cur, frame>>

\* build_from_snapshot, lines 81-86: the metrics fifo is linked into the jail
\* and registered; anything but 204 fails the assertion, and so does a link
\* that cannot be made.
Bfs_metrics_put ==
    /\ UNCHANGED <<httpVars, monVars, testVars, written>>
    /\ pc = "bfs_81"
    /\ \E linked \in Linkable :
        IF linked
        THEN \E st \in Responses :
               LET fifo == HostPath(vms[cur].root, "metrics.log", 0)
                   v == Sent(Link(vms[cur], fifo), "put",
                             [api |-> "metrics", metrics_path |-> JailedPath(fifo)], st)
               IN /\ vms' = [vms EXCEPT ![cur] = v]
                  /\ IF st = StatusNoContent
                     THEN pc' = "bfs_89" /\ UNCHANGED <<cur, frame>>
                     ELSE Fail
        ELSE UNCHANGED vms /\ Fail
    /\ UNCHANGED <<dirs, root_path, snaps>>

\* build_from_snapshot, line 89: jailed_mem = create_jailed_resource(snapshot.mem).
Bfs_link_mem ==
    /\ UNCHANGED <<httpVars, monVars, testVars, written>>
    /\ pc = "bfs_89"
    /\ \E linked \in Linkable :
        IF linked
        THEN /\ vms' = [vms EXCEPT ![cur] = Link(@, snaps[frame.snapshot].mem)]
             /\ frame' = [frame EXCEPT !.jailed_mem = JailedPath(snaps[frame.snapshot].mem)]
             /\ pc' = "bfs_90"
             /\ UNCHANGED cur
        ELSE UNCHANGED vms /\ Fail
    /\ UNCHANGED <<dirs, root_path, snaps>>

\* build_from_snapshot, line 90: jailed_vmstate = create_jailed_resource(snapshot.vmstate).
Bfs_link_vmstate ==
    /\ UNCHANGED <<httpVars, monVars, testVars, written>>
    /\ pc = "bfs_90"
    /\ \E linked \in Linkable :
        IF linked
        THEN /\ vms' = [vms EXCEPT ![cur] = Link(@, snaps[frame.snapshot].vmstate)]
             /\ frame' = [frame EXCEPT !.jailed_vmstate = JailedPath(snaps[frame.snapshot].vmstate)]
             /\ pc' = "bfs_91"
             /\ UNCHANGED cur
        ELSE UNCHANGED vms /\ Fail
    /\ UNCHANGED <<dirs, root_path, snaps>>

\* build_from_snapshot, lines 91-92: assert len(snapshot.disks) > 0.
Bfs_assert_disks ==
    /\ UNCHANGED <<httpVars, monVars, testVars, written>>
    /\ pc = "bfs_91"
    /\ IF Len(snaps[frame.snapshot].disks) > 0
       THEN pc' = "bfs_93" /\ UNCHANGED <<cur, frame>>
       ELSE Fail
    /\ UNCHANGED <<dirs, root_path, vms, snaps>>

\* Mutant of Bfs_link_disk: the loop ends after the first disk.
Bfs_link_disk_first_only ==
    /\ UNCHANGED <<httpVars, monVars, testVars, written>>
    /\ pc = "bfs_93"
    /\ LET disks == snaps[frame.snapshot].disks
           i == Len(frame.jailed_disks) + 1
       IN /\ vms' = [vms EXCEPT ![cur] = Link(@, disks[i])]
          /\ frame' = [frame EXCEPT !.jailed_disks = Append(@, JailedPath(disks[i]))]
          /\ pc' = "bfs_95"
    /\ UNCHANGED <<dirs, root_path, snaps, cur>>

\* build_from_snapshot, lines 93-94: one iteration of the loop over
\* snapshot.disks; the loop ends after the last disk, or with the exception
\* of a link that fails.
Bfs_link_disk ==
    /\ UNCHANGED <<httpVars, monVars, testVars, written>>
    /\ pc = "bfs_93"
    /\ \E linked \in Linkable :
        LET disks == snaps[frame.snapshot].disks
            i == Len(frame.jailed_disks) + 1
        IN IF linked
           THEN /\ vms' = [vms EXCEPT ![cur] = Link(@, disks[i])]
                /\ frame' = [frame EXCEPT !.jailed_disks = Append(@, JailedPath(disks[i]))]
                /\ pc' = IF i = Len(disks) THEN "bfs_95" ELSE "bfs_93"
                /\ UNCHANGED cur
           ELSE UNCHANGED vms /\ Fail
    /\ UNCHANGED <<dirs, root_path, snaps>>

\* Mutant of Bfs_load: a load that was not answered 204 is sent once more.
Bfs_load_retries ==
    /\ UNCHANGED <<httpVars, monVars, testVars, written>>
    /\ pc = "bfs_95"
    /\ \E st \in Responses :
        LET v == Sent(vms[cur], "put",
                      [api |-> "snapshot_load", mem_file_path |-> frame.jailed_mem,
                       snapshot_path |-> frame.jailed_vmstate, diff |-> frame.diff], st)
        IN IF st = StatusNoContent
           THEN /\ vms' = [vms EXCEPT ![cur] = SetState(v, "Paused")]
                /\ pc' = IF frame.resume THEN "bfs_111" ELSE "bfs_115"
                /\ UNCHANGED <<cur, frame>>
           ELSE /\ vms' = [vms EXCEPT ![cur] = v]
                /\ IF Len(v.reqs) <= 2
                   THEN UNCHANGED <<pc, cur, frame>>
                   ELSE Fail
    /\ UNCHANGED <<dirs, root_path, snaps>>

\* Mutant of Bfs_load: the Resumed patch follows whatever resume says.
Bfs_load_always_resumes ==
    /\ UNCHANGED <<httpVars, monVars, testVars, written>>
    /\ pc = "bfs_95"
    /\ \E st \in Responses :
        LET v == Sent(vms[cur], "put",
                      [api |-> "snapshot_load", mem_file_path |-> frame.jailed_mem,
                       snapshot_path |-> frame.jailed_vmstate, diff |-> frame.diff], st)
        IN IF st = StatusNoContent
           THEN /\ vms' = [vms EXCEPT ![cur] = SetState(v, "Paused")]
                /\ pc' = "bfs_111"
                /\ UNCHANGED <<cur, frame>>
           ELSE /\ vms' = [vms EXCEPT ![cur] = v]
                /\ Fail
    /\ UNCHANGED <<dirs, root_path, snaps>>

\* build_from_snapshot, lines 103-107: snapshot_load.put with the jailed
\* paths; anything but 204 fails the assertion.  Lines 95-101 (ssh key, tap
\* device) come first and touch neither the jail nor the API.  A loaded VM
\* is paused until it is resumed.
Bfs_load ==
    /\ UNCHANGED <<httpVars, monVars, testVars, written>>
    /\ pc = "bfs_95"
    /\ \E st \in Responses :
        LET v == Sent(vms[cur], "put",
                      [api |-> "snapshot_load", mem_file_path |-> frame.jailed_mem,
                       snapshot_path |-> frame.jailed_vmstate, diff |-> frame.diff], st)
        IN IF st = StatusNoContent
           THEN /\ vms' = [vms EXCEPT ![cur] = SetState(v, "Paused")]
                /\ pc' = IF frame.resume THEN "bfs_111" ELSE "bfs_115"
                /\ UNCHANGED <<cur, frame>>
           ELSE /\ vms' = [vms EXCEPT ![cur] = v]
                /\ Fail
    /\ UNCHANGED <<dirs, root_path, snaps>>

\* build_from_snapshot, lines 109-112: if resume, vm.vm.patch(state='Resumed')
\* and the assertion on 204.
Bfs_resume ==
    /\ UNCHANGED <<httpVars, monVars, testVars, written>>
    /\ pc = "bfs_111"
    /\ \E st \in Responses :
        LET v == Sent(vms[cur], "patch", [api |-> "vm", state |-> "Resumed"], st)
        IN IF st = StatusNoContent
           THEN /\ vms' = [vms EXCEPT ![cur] = SetState(v, "Running")]
                /\ pc' = "bfs_115"
                /\ UNCHANGED <<cur, frame>>
           ELSE /\ vms' = [vms EXCEPT ![cur] = v]
                /\ Fail
    /\ UNCHANGED <<dirs, root_path, snaps>>

\* build_from_snapshot, line 115: return vm, metrics_fifo.
Bfs_return ==
    /\ UNCHANGED <<httpVars, monVars, testVars, written>>
    /\ pc = "bfs_115"
    /\ vms' = [vms EXCEPT ![cur].returned = TRUE]
    /\ pc' = "idle"
    /\ cur' = 0
    /\ frame' = NoFrame
    /\ UNCHANGED <<dirs, root_path, snaps>>

\* ----------------------------------------------------------------- Session
\* Mutant of untime: put keeps its duration limit.
untime_but_put(v) == [v EXCEPT !.timed = [m \in Methods |-> m = "put"]]

\* Session.untime: get, patch and put of this session object are replaced by
\* the plain requests.Session methods.
untime(v) == [v EXCEPT !.timed = [m \in Methods |-> FALSE]]

\* The place in the request log where untime() was first called on v's session.
MarkUntimed(v) == [v EXCEPT !.untimedAt = IF @ = -1 THEN Len(v.reqs) ELSE @]

\* Session.get called by a test on a VM it holds (a request that changes no
\* lifecycle state; put and patch are what the other calls go through).
SessionCall ==
    /\ UNCHANGED <<httpVars, monVars, testVars, written>>
    /\ pc = "idle"
    /\ \E i \in 1..Len(vms) :
        /\ Held(i)
        /\ TestCalls < MaxCalls
        /\ vms' = [vms EXCEPT ![i] = TestCall(@, "get", [api |-> "other"], StatusOk)]
    /\ UNCHANGED <<dirs, root_path, snaps, pc, cur, frame>>

\* ------------------------------------------------- SnapshotBuilder.create
\* create, line 132: the call starts by disabling the API timeout.  Tests
\* snapshot a VM that is running.
Create_untime ==
    /\ UNCHANGED <<httpVars, monVars, testVars, written>>
    /\ pc = "idle"
    /\ CreateCalls < MaxSnaps
    /\ \E i \in 1..Len(vms), disks \in DiskLists, ty \in {"FULL", "DIFF"} :
        /\ Held(i)
        /\ vms[i].state = "Running"
        /\ vms' = [vms EXCEPT ![i] =
                     [MarkUntimed(untime(@)) EXCEPT
                        !.creates = Append(@, [disks |-> disks, snapshot_type |-> ty])]]
        /\ cur' = i
        /\ frame' = [op |-> "create", disks |-> disks, ssh_key |-> SshKey,
                     snapshot_type |-> ty]
    /\ pc' = "create_133"
    /\ UNCHANGED <<dirs, root_path, snaps>>

\* create, lines 133-135: Path(snapshot_dir).mkdir(parents=True, exist_ok=True).
Create_mkdir ==
    /\ UNCHANGED <<httpVars, monVars, testVars, written>>
    /\ pc = "create_133"
    /\ vms' = [vms EXCEPT ![cur].snapdir = IF @ = "none" THEN "made" ELSE @]
    /\ pc' = "create_136"
    /\ UNCHANGED <<dirs, root_path, snaps, cur, frame>>

\* create, lines 136-139: chown uid:gid snapshot_dir.
Create_chown ==
    /\ UNCHANGED <<httpVars, monVars, testVars, written>>
    /\ pc = "create_136"
    /\ vms' = [vms EXCEPT ![cur].snapdir = IF @ = "made" THEN "owned" ELSE @]
    /\ pc' = "create_140"
    /\ UNCHANGED <<dirs, root_path, snaps, cur, frame>>

\* Microvm.pause_to_snapshot: the VM is paused, then snapshot-create is sent;
\* each request must be answered 204.  st1 and st2 are the VMM's answers.
\* The result is the VM, whether the call succeeded, and the files the VMM
\* wrote inside the jail (the memory and state files, when it answered 204).
\* The files are written by whom, once Len(snaps) snapshots exist.
Write(files, by) == written \cup {[file |-> f, by |-> by, n |-> Len(snaps)] : f \in files}

pause_to_snapshot(v, mem, vmstate, diff, st1, st2) ==
    LET c == [v EXCEPT !.p2s = Append(@, [mem_file_path |-> mem, snapshot_path |-> vmstate,
                                          diff |-> diff, timed |-> v.timed,
                                          snapdir |-> v.snapdir])]
        p == Sent(c, "patch", [api |-> "vm", state |-> "Paused"], st1)
    IN IF st1 # StatusNoContent
       THEN [vm |-> p, ok |-> FALSE, files |-> {}]
       ELSE [vm |-> Sent(SetState(p, "Paused"), "put",
                         [api |-> "snapshot_create", mem_file_path |-> mem,
                          snapshot_path |-> vmstate, diff |-> diff], st2),
             ok |-> st2 = StatusNoContent,
             files |-> IF st2 = StatusNoContent
                       THEN {InChroot(v.root, mem), InChroot(v.root, vmstate)}
                       ELSE {}]

\* Mutant of Create_pause_to_snapshot: the comparison is with FULL.
Create_pause_to_snapshot_full ==
    /\ UNCHANGED <<httpVars, monVars, testVars>>
    /\ pc = "create_140"
    /\ \E st1 \in Responses, st2 \in Responses :
        LET r == pause_to_snapshot(vms[cur], MemFilePath, VmstatePath,
                                   frame.snapshot_type = "FULL", st1, st2)
        IN /\ vms' = [vms EXCEPT ![cur] = r.vm]
           /\ written' = Write(r.files, "create")
           /\ IF r.ok
              THEN pc' = "create_146" /\ UNCHANGED <<cur, frame>>
              ELSE Fail
    /\ UNCHANGED <<dirs, root_path, snaps>>

\* create, lines 140-143: pause_to_snapshot with diff = (snapshot_type == DIFF).
Create_pause_to_snapshot ==
    /\ UNCHANGED <<httpVars, monVars, testVars>>
    /\ pc = "create_140"
    /\ \E st1 \in Responses, st2 \in Responses :
        LET r == pause_to_snapshot(vms[cur], MemFilePath, VmstatePath,
                                   frame.snapshot_type = "DIFF", st1, st2)
        IN /\ vms' = [vms EXCEPT ![cur] = r.vm]
           /\ written' = Write(r.files, "create")
           /\ IF r.ok
              THEN pc' = "create_146" /\ UNCHANGED <<cur, frame>>
              ELSE Fail
    /\ UNCHANGED <<dirs, root_path, snaps>>

\* Mutant of Snapshot: the last disk of the list is left out.
Snapshot_drops_disk(mem, vmstate, disks, ssh_key) ==
    [mem |-> mem, vmstate |-> vmstate,
     disks |-> [k \in 1..(Len(disks) - 1) |-> DiskPath(disks[k])],
     ssh_key |-> ssh_key]

\* create, lines 149-156: Snapshot(mem=..., vmstate=..., disks=disks,
\* ssh_key=...), the disk list being the caller's.
Snapshot(mem, vmstate, disks, ssh_key) ==
    [mem |-> mem, vmstate |-> vmstate,
     disks |-> [k \in 1..Len(disks) |-> DiskPath(disks[k])],
     ssh_key |-> ssh_key]

\* What the model keeps beside a Snapshot: its type, the capturing VM, the
\* number of the create call on that VM, the length of the VM's history when
\* create returned, and the base it was rebased on (0: none).
Captured(s, ty, vm) ==
    [mem |-> s.mem, vmstate |-> s.vmstate, disks |-> s.disks, ssh_key |-> s.ssh_key,
     snapshot_type |-> ty, vm |-> vm, call |-> Len(vms[vm].creates),
     at |-> Len(vms[vm].hist), base |-> 0]

\* create, lines 146-156: the ssh key is copied and the Snapshot is returned.
\* In _test_seq_snapshots (lines 125-136) a DIFF snapshot of a restored VM is
\* rebased next.
Create_return ==
    /\ UNCHANGED <<httpVars, monVars, testVars>>
    /\ pc = "create_146"
    /\ LET ssh_key_copy == ArtifactCopy(frame.ssh_key, Len(snaps) + 1)
       IN /\ written' = Write({ssh_key_copy}, "create")
          /\ snaps' = Append(snaps,
                  Captured(Snapshot(SnapshotDirFile(vms[cur].root, "vm.mem"),
                                    SnapshotDirFile(vms[cur].root, "vm.vmstate"),
                                    frame.disks, ssh_key_copy),
                           frame.snapshot_type, cur))
    /\ IF frame.snapshot_type = "DIFF" /\ vms[cur].kind = "restored"
       THEN pc' = "seq_134" /\ UNCHANGED <<cur, frame>>
       ELSE pc' = "idle" /\ cur' = 0 /\ frame' = NoFrame
    /\ UNCHANGED <<dirs, root_path, vms>>

\* Snapshot.rebase_snapshot(base): the snapshot keeps a reference to its base.
rebase_snapshot(s, base) == [s EXCEPT !.base = base]

\* _test_seq_snapshots, lines 131-136: the new DIFF snapshot is rebased on
\* base_snapshot, which is the snapshot its VM was loaded from.
Seq_rebase_snapshot ==
    /\ UNCHANGED <<httpVars, monVars, testVars, written>>
    /\ pc = "seq_134"
    /\ snaps' = [snaps EXCEPT ![Len(snaps)] = rebase_snapshot(@, vms[cur].snapshot)]
    /\ pc' = "idle"
    /\ cur' = 0
    /\ frame' = NoFrame
    /\ UNCHANGED <<dirs, root_path, vms>>

\* _test_seq_snapshots, line 113 (_guest_run_fio_iteration, lines 17-24): the
\* guest of the VM just restored and resumed starts fio under screen, which
\* logs to /tmp/fio<i> on the guest's root file system, kept on the first disk.
Guest_run_fio_iteration ==
    /\ UNCHANGED <<httpVars, monVars, testVars>>
    /\ pc = "idle"
    /\ \E i \in 1..Len(vms) :
        /\ Held(i)
        /\ vms[i].kind = "restored"
        /\ vms[i].state = "Running"
        /\ written' = Write({snaps[vms[i].snapshot].disks[1]}, "guest")
    /\ UNCHANGED <<dirs, root_path, vms, snaps, pc, cur, frame>>

\* ------------------------------------------------------- the tests' calls
\* vm.start() on a VM that build returned, once: InstanceStart; the test
\* asserts the 204.
Start ==
    /\ UNCHANGED <<httpVars, monVars, testVars, written>>
    /\ pc = "idle"
    /\ \E i \in 1..Len(vms), st \in Responses :
        /\ Held(i)
        /\ vms[i].kind = "fresh"
        /\ vms[i].state \in {"Spawned", "Configured"}
        /\ LET v == Sent(vms[i], "put", [api |-> "actions", action_type |-> "InstanceStart"], st)
           IN vms' = [vms EXCEPT ![i] = IF st = StatusNoContent
                                        THEN SetState(v, "Running") ELSE v]
        /\ pc' = IF st = StatusNoContent THEN "idle" ELSE "failed"
    /\ UNCHANGED <<dirs, root_path, snaps, cur, frame>>

\* vm.vm.patch(state='Resumed') on a paused VM the test holds; the test
\* asserts the 204.
Resume ==
    /\ UNCHANGED <<httpVars, monVars, testVars, written>>
    /\ pc = "idle"
    /\ \E i \in 1..Len(vms), st \in Responses :
        /\ Held(i)
        /\ vms[i].state = "Paused"
        /\ TestCalls < MaxCalls
        /\ LET v == TestCall(vms[i], "patch", [api |-> "vm", state |-> "Resumed"], st)
           IN vms' = [vms EXCEPT ![i] = IF st = StatusNoContent
                                        THEN SetState(v, "Running") ELSE v]
        /\ pc' = IF st = StatusNoContent THEN "idle" ELSE "failed"
    /\ UNCHANGED <<dirs, root_path, snaps, cur, frame>>

\* vm.kill() on a VM the test was given, by the test or by its teardown.
Kill ==
    /\ UNCHANGED <<httpVars, monVars, testVars, written>>
    /\ pc \in {"idle", "failed"}
    /\ \E i \in 1..Len(vms) :
        /\ vms[i].returned
        /\ vms[i].state # "Killed"
        /\ vms' = [vms EXCEPT ![i] = SetState(@, "Killed")]
    /\ UNCHANGED <<dirs, root_path, snaps, pc, cur, frame>>

\* ------------------------------------------------------ Session predicates
\* Mutant of is_good_response: 300 counts as good.
is_good_response_to_300(response) == 200 <= response /\ response <= 300

is_good_response(response) == 200 <= response /\ response < 300

is_status_ok(response) == response = StatusOk

is_status_no_content(response) == response = StatusNoContent

is_status_bad_request(response) == response = StatusBadRequest

is_status_not_found(response) == response = StatusNotFound

\* The five predicates Session.__init__ installs, applied to one status code.
Classify ==
    /\ ~verdict.done
    /\ verdict' = [done |-> TRUE,
                   good |-> is_good_response(code),
                   ok |-> is_status_ok(code),
                   no_content |-> is_status_no_content(code),
                   bad_request |-> is_status_bad_request(code),
                   not_found |-> is_status_not_found(code)]
    /\ UNCHANGED <<code, builderVars, monVars, testVars>>

\* ------------------------------------------------------- FCMetricsMonitor
\* Mutant of get_all_metrics: only the latest record, as flush_metrics gives.
get_all_metrics_latest == IF emitted = 0 THEN <<>> ELSE <<emitted>>

\* Microvm.get_all_metrics: every record the VM has written so far, oldest
\* first (records are numbered in the order the VM wrote them).
get_all_metrics == [i \in 1..emitted |-> i]

\* Mutant of FlushSlice: the slice starts one record too far.
FlushSlice_off_by_one(all_metrics, index) == SubSeq(all_metrics, index + 2, Len(all_metrics))

\* _flush_metrics, line 457: all_metrics[self.metrics_index:].
FlushSlice(all_metrics, index) == SubSeq(all_metrics, index + 1, Len(all_metrics))

\* The top-level keys of a metrics record, in the order of the record: the
\* timestamp and some of the groups of fcmetrics.py lines 26-232.
Groups == <<"utc_timestamp_ms", "api_server", "latencies_us", "net", "vmm">>

\* fcmetrics.py lines 413-416.
metrics_to_export_once == {"api_server", "latencies_us"}

\* flush_fc_metrics_to_cw, lines 418-424: the loop over the groups of one
\* record, with the set skip as it stands and the groups exported so far
\* (walk_key puts every value of an exported group).
RECURSIVE WalkGroups(_, _, _)
WalkGroups(groups, skip, put) ==
    IF groups = <<>> THEN put
    ELSE LET group == Head(groups)
         IN IF group = "utc_timestamp_ms"
            THEN WalkGroups(Tail(groups), skip, put)
            ELSE IF group \notin skip
            THEN WalkGroups(Tail(groups),
                            IF group \in metrics_to_export_once
                            THEN skip \cup {group} ELSE skip,
                            Append(put, group))
            ELSE WalkGroups(Tail(groups), skip, put)

\* flush_fc_metrics_to_cw(metrics, self.metrics_logger), called by `by`:
\* skip is a new empty set in every call (line 417).
flush_fc_metrics_to_cw(rec, by) ==
    Append(forwarded, [rec |-> rec, by |-> by, put |-> WalkGroups(Groups, {}, <<>>)])

\* The VM writes a record of its own (its periodic flush).
Vm_emit ==
    /\ emitted < MaxRecords
    /\ emitted' = emitted + 1
    /\ UNCHANGED <<running, metrics_index, tpc, spc, tpending, spending,
                   forwarded, ticks, flushed_at>>
    /\ UNCHANGED <<builderVars, httpVars, testVars>>

\* Thread.start(): the thread exists; run() has not executed a statement yet.
Mon_start ==
    /\ tpc = "unstarted"
    /\ tpc' = "run_480"
    /\ UNCHANGED <<running, metrics_index, spc, emitted, tpending, spending,
                   forwarded, ticks, flushed_at>>
    /\ UNCHANGED <<builderVars, httpVars, testVars>>

\* run, line 480: self.running = True.
Run_set_running ==
    /\ tpc = "run_480"
    /\ running' = TRUE
    /\ tpc' = "run_481"
    /\ UNCHANGED <<metrics_index, spc, emitted, tpending, spending,
                   forwarded, ticks, flushed_at>>
    /\ UNCHANGED <<builderVars, httpVars, testVars>>

\* run, line 481: while self.running is True.
Run_while ==
    /\ tpc = "run_481"
    /\ tpc' = IF running THEN "run_456" ELSE "done"
    /\ UNCHANGED <<running, metrics_index, spc, emitted, tpending, spending,
                   forwarded, ticks, flushed_at>>
    /\ UNCHANGED <<builderVars, httpVars, testVars>>

\* run, line 482 -> _flush_metrics, lines 456-457: the metrics are read and
\* the slice from metrics_index is taken.
Run_flush_read ==
    /\ tpc = "run_456"
    /\ tpending' = FlushSlice(get_all_metrics, metrics_index)
    /\ tpc' = "run_457"
    /\ UNCHANGED <<running, metrics_index, spc, emitted, spending,
                   forwarded, ticks, flushed_at>>
    /\ UNCHANGED <<builderVars, httpVars, testVars>>

\* _flush_metrics, lines 457-459, called by run: one iteration of the loop.
Run_flush_fwd ==
    /\ tpc = "run_457"
    /\ tpending # <<>>
    /\ forwarded' = flush_fc_metrics_to_cw(Head(tpending), "run")
    /\ metrics_index' = metrics_index + 1
    /\ tpending' = Tail(tpending)
    /\ UNCHANGED <<running, tpc, spc, emitted, spending, ticks, flushed_at>>
    /\ UNCHANGED <<builderVars, httpVars, testVars>>

\* _flush_metrics returns to run, which enters its for loop (line 487).
Run_flush_done ==
    /\ tpc = "run_457"
    /\ tpending = <<>>
    /\ ticks' = 0
    /\ tpc' = "run_488"
    /\ UNCHANGED <<running, metrics_index, spc, emitted, tpending, spending,
                   forwarded, flushed_at>>
    /\ UNCHANGED <<builderVars, httpVars, testVars>>

\* run, line 488: time.sleep(1).
Run_sleep ==
    /\ tpc = "run_488"
    /\ ticks' = ticks + 1
    /\ tpc' = "run_489"
    /\ UNCHANGED <<running, metrics_index, spc, emitted, tpending, spending,
                   forwarded, flushed_at>>
    /\ UNCHANGED <<builderVars, httpVars, testVars>>

\* Mutant of Run_check: the for loop does not look at the flag.
Run_check_ignores_flag ==
    /\ tpc = "run_489"
    /\ tpc' = IF ticks = Timer THEN "run_481" ELSE "run_488"
    /\ UNCHANGED <<running, metrics_index, spc, emitted, tpending, spending,
                   forwarded, ticks, flushed_at>>
    /\ UNCHANGED <<builderVars, httpVars, testVars>>

\* run, lines 489-490 and 487: break if running is False; otherwise the for
\* loop goes on until range(self.timer) is used up.
Run_check ==
    /\ tpc = "run_489"
    /\ tpc' = IF ~running \/ ticks = Timer THEN "run_481" ELSE "run_488"
    /\ UNCHANGED <<running, metrics_index, spc, emitted, tpending, spending,
                   forwarded, ticks, flushed_at>>
    /\ UNCHANGED <<builderVars, httpVars, testVars>>

\* stop, line 471: self.running = False.  stop() is called on a monitor
\* whose thread has been started.
Stop_set_flag ==
    /\ spc = "none"
    /\ tpc # "unstarted"
    /\ running' = FALSE
    /\ spc' = "stop_475"
    /\ UNCHANGED <<metrics_index, tpc, emitted, tpending, spending,
                   forwarded, ticks, flushed_at>>
    /\ UNCHANGED <<builderVars, httpVars, testVars>>

\* Mutant of Stop_join: stop() does not wait for the thread.
Stop_join_no_wait ==
    /\ spc = "stop_475"
    /\ spc' = "stop_476"
    /\ UNCHANGED <<running, metrics_index, tpc, emitted, tpending, spending,
                   forwarded, ticks, flushed_at>>
    /\ UNCHANGED <<builderVars, httpVars, testVars>>

\* stop, line 475: self.join() returns once the thread has ended, run()
\* having returned or raised.
Stop_join ==
    /\ spc = "stop_475"
    /\ tpc \in {"done", "raised"}
    /\ spc' = "stop_476"
    /\ UNCHANGED <<running, metrics_index, tpc, emitted, tpending, spending,
                   forwarded, ticks, flushed_at>>
    /\ UNCHANGED <<builderVars, httpVars, testVars>>

\* stop, line 476: the FlushMetrics action makes the VM write one record.
Stop_put ==
    /\ spc = "stop_476"
    /\ emitted' = emitted + 1
    /\ flushed_at' = emitted + 1
    /\ spc' = "stop_456"
    /\ UNCHANGED <<running, metrics_index, tpc, tpending, spending,
                   forwarded, ticks>>
    /\ UNCHANGED <<builderVars, httpVars, testVars>>

\* stop, line 477 -> _flush_metrics, lines 456-457.
Stop_flush_read ==
    /\ spc = "stop_456"
    /\ spending' = FlushSlice(get_all_metrics, metrics_index)
    /\ spc' = "stop_457"
    /\ UNCHANGED <<running, metrics_index, tpc, emitted, tpending,
                   forwarded, ticks, flushed_at>>
    /\ UNCHANGED <<builderVars, httpVars, testVars>>

\* _flush_metrics, lines 457-459, called by stop: one iteration of the loop.
Stop_flush_fwd ==
    /\ spc = "stop_457"
    /\ spending # <<>>
    /\ forwarded' = flush_fc_metrics_to_cw(Head(spending), "stop")
    /\ metrics_index' = metrics_index + 1
    /\ spending' = Tail(spending)
    /\ UNCHANGED <<running, tpc, spc, emitted, tpending, ticks, flushed_at>>
    /\ UNCHANGED <<builderVars, httpVars, testVars>>

\* _flush_metrics returns and so does stop().
Stop_return ==
    /\ spc = "stop_457"
    /\ spending = <<>>
    /\ spc' = "done"
    /\ UNCHANGED <<running, metrics_index, tpc, emitted, tpending, spending,
                   forwarded, ticks, flushed_at>>
    /\ UNCHANGED <<builderVars, httpVars, testVars>>

\* _flush_metrics called by run (line 482) raises: get_all_metrics (456) or
\* flush_fc_metrics_to_cw (458) fails.  run() has no handler, so the
\* exception ends the thread.
Run_flush_raise ==
    /\ tpc \in {"run_456", "run_457"}
    /\ tpc = "run_457" => tpending # <<>>
    /\ tpc' = "raised"
    /\ tpending' = <<>>
    /\ UNCHANGED <<running, metrics_index, spc, emitted, spending,
                   forwarded, ticks, flushed_at>>
    /\ UNCHANGED <<builderVars, httpVars, testVars>>

\* _flush_metrics called by stop (line 477) raises: the exception leaves
\* stop() and reaches its caller.
Stop_flush_raise ==
    /\ spc \in {"stop_456", "stop_457"}
    /\ spc = "stop_457" => spending # <<>>
    /\ spc' = "raised"
    /\ spending' = <<>>
    /\ UNCHANGED <<running, metrics_index, tpc, emitted, tpending,
                   forwarded, ticks, flushed_at>>
    /\ UNCHANGED <<builderVars, httpVars, testVars>>

\* ----------------------------------------------------------- specification
BuilderInit ==
    /\ dirs = {mkdtemp({})}
    /\ root_path = mkdtemp({})
    /\ vms = <<>>
    /\ snaps = <<>>
    /\ pc = "idle"
    /\ cur = 0
    /\ frame = NoFrame
    /\ written = {}

MetIdle ==
    /\ life = "configured"
    /\ lines = <<>>
    /\ prev_lines = <<>>

TokIdle ==
    /\ tokens = {}
    /\ curl = {}

\* test_snapshot_version.py: the test was given a Microvm that is not spawned
\* yet, and asks for n network devices.
VerStart(n) ==
    /\ tvm = NewVm(0, "fresh")
    /\ devices_no = n
    /\ attached = 0
    /\ vpc = "line_20"
    /\ attempts = <<>>

\* TestMatrix(context, artifact_sets) with sets of the sizes sz, and run_test
\* called (test_snapshot_basic.py lines 172-179).
MatStart(sz) ==
    /\ asets = sz
    /\ cell = <<1, 1, 1>>
    /\ mcalls = <<>>
    /\ mpc = "run"

\* validate_fc_metrics(metrics) is called at the time now, in microseconds.
ValStart(now, ts, fits) ==
    /\ utc_us = now
    /\ record = [utc_timestamp_ms |-> ts, fits_schema |-> fits]
    /\ schema_checked = FALSE
    /\ vres = "none"

\* test_topology.py lines 59-64: the headers of the first three calls.
Headers == <<"--- cache 0 ---", "--- cache 1 ---", "--- cache 2 ---">>

\* test_topology.py lines 41-44 and 50-53: the level-1 dictionary, for one
\* vCPU on the level-1 cache.
ExpectedLevel1 == [key \in {"level", "sharing"} |-> 1]

\* A line of the guest's output: a header (no separator in it) or key = value.
HeaderLine(n) == [k |-> Headers[n], v |-> 0]
KeyValueLine(key, value) == [k |-> key, v |-> value]

\* What `cpuid -1` prints: for each cache its header, its level and the
\* number of threads sharing it.
CpuidOutput(level, sharing) ==
    <<HeaderLine(1), KeyValueLine("level", level[1]), KeyValueLine("sharing", sharing[1]),
      HeaderLine(2), KeyValueLine("level", level[2]), KeyValueLine("sharing", sharing[2]),
      HeaderLine(3), KeyValueLine("level", level[3]), KeyValueLine("sharing", sharing[3])>>

\* _check_cache_topology_x86 has built its dictionaries; the guest prints
\* the given output.
CpuidStart(out) ==
    /\ store = ExpectedLevel1
    /\ guest = out
    /\ cres = <<>>

\* FcDeviceMetrics(name, num, aggr).validate_per_device_metrics(metrics).
DevStart(name, num, aggr, metrics) ==
    /\ dev_name = name
    /\ num_dev = num
    /\ aggr_supported = aggr
    /\ fc_metrics = metrics
    /\ dres = "none"

\* The tests of the harness other than the one named g have not started.
TestIdleBut(g) ==
    /\ IF g # "metrics" THEN MetIdle ELSE TRUE
    /\ IF g # "mmds" THEN TokIdle ELSE TRUE
    /\ IF g # "version" THEN VerStart(0) ELSE TRUE
    /\ IF g # "matrix" THEN MatStart(<<0, 0, 0>>) ELSE TRUE
    /\ IF g # "validate" THEN ValStart(0, 0, TRUE) ELSE TRUE
    /\ IF g # "cpuid" THEN CpuidStart(<<>>) ELSE TRUE
    /\ IF g # "device" THEN DevStart(<<"n">>, 0, FALSE, <<>>) ELSE TRUE

TestIdle == TestIdleBut("none")

MonIdle ==
    /\ running = FALSE
    /\ metrics_index = 0
    /\ tpc = "unstarted"
    /\ spc = "none"
    /\ emitted = 0
    /\ tpending = <<>>
    /\ spending = <<>>
    /\ forwarded = <<>>
    /\ ticks = 0
    /\ flushed_at = 0

\* MicrovmBuilder.__init__ has run: it allocated a first root directory.
Init ==
    /\ BuilderInit
    /\ code = 0
    /\ verdict = [done |-> FALSE]
    /\ MonIdle
    /\ TestIdle

Next ==
    \/ Build_init_root_path \/ Build_init_microvm \/ Build_spawn
    \/ Build_basic_config \/ Build_return
    \/ Bfs_init_root_path \/ Bfs_init_microvm \/ Bfs_spawn \/ Bfs_metrics_put
    \/ Bfs_link_mem \/ Bfs_link_vmstate \/ Bfs_assert_disks \/ Bfs_link_disk
    \/ Bfs_load \/ Bfs_resume \/ Bfs_return
    \/ Create_untime \/ Create_mkdir \/ Create_chown
    \/ Create_pause_to_snapshot \/ Create_return \/ Seq_rebase_snapshot
    \/ Start \/ Resume \/ Kill

Spec == Init /\ [][Next]_vars

\* The same harness with the tests' plain requests on the VM's session.
SessionNext == Next \/ SessionCall

SessionSpec == Init /\ [][SessionNext]_vars

\* The same harness with what _test_seq_snapshots runs in the guest.
SeqNext == Next \/ Guest_run_fio_iteration

SeqSpec == Init /\ [][SeqNext]_vars

\* The status predicates applied to every status code of the range.
HttpInit ==
    /\ BuilderInit
    /\ MonIdle
    /\ TestIdle
    /\ code \in (0 - MaxCode)..MaxCode
    /\ verdict = [done |-> FALSE]

HttpNext == Classify

HttpSpec == HttpInit /\ [][HttpNext]_vars

\* The monitor, its thread, the caller of stop() and the VM.  The thread and
\* a stop() under way keep being scheduled.
MonInit ==
    /\ BuilderInit
    /\ code = 0
    /\ verdict = [done |-> FALSE]
    /\ MonIdle
    /\ TestIdle

RunThread ==
    \/ Run_set_running \/ Run_while \/ Run_flush_read \/ Run_flush_fwd
    \/ Run_flush_done \/ Run_sleep \/ Run_check

StopCall ==
    \/ Stop_join \/ Stop_put \/ Stop_flush_read \/ Stop_flush_fwd \/ Stop_return

MonNext == Vm_emit \/ Mon_start \/ Stop_set_flag \/ RunThread \/ StopCall

MonSpec == MonInit /\ [][MonNext]_vars /\ WF_vars(RunThread) /\ WF_vars(StopCall)

\* The monitor when reading the metrics or forwarding a record can fail.
MonFailNext == MonNext \/ Run_flush_raise \/ Stop_flush_raise

MonFailSpec == MonInit /\ [][MonFailNext]_vars

\* ------------------------------------------------------------------ claims
Range(f) == {f[k] : k \in DOMAIN f}

Restored(v) == v.kind = "restored"

IsLoad(r) == r.req.api = "snapshot_load"

\* The Resumed patch build_from_snapshot itself sends (line 111).
IsBfsPatch(r) == r.at = "bfs_111"

\* C1: in build_from_snapshot the load-snapshot request is sent only after
\* the VM was spawned, the metrics registration was answered 204, and the
\* snapshot's memory file, state file and every disk were linked into the new
\* jail; the request carries the jailed paths of the memory and state files.
C1_LoadAfterSpawnMetricsLinks ==
    \A i \in 1..Len(vms) : \A k \in 1..Len(vms[i].reqs) :
        LET v == vms[i]
            r == v.reqs[k]
            s == snaps[v.snapshot]
        IN IsLoad(r) =>
            /\ "Spawned" \in Range(v.hist)
            /\ \E j \in 1..(k - 1) :
                  v.reqs[j].req.api = "metrics" /\ v.reqs[j].status = StatusNoContent
            /\ s.mem \in v.jail
            /\ s.vmstate \in v.jail
            /\ \A d \in 1..Len(s.disks) : s.disks[d] \in v.jail
            /\ r.req.mem_file_path = JailedPath(s.mem)
            /\ r.req.snapshot_path = JailedPath(s.vmstate)

\* A load-snapshot request was sent for a snapshot of two or more disks.
C1_Witness ==
    \E i \in 1..Len(vms) :
        /\ \E k \in 1..Len(vms[i].reqs) : IsLoad(vms[i].reqs[k])
        /\ Len(snaps[vms[i].snapshot].disks) >= 2

Before(v, k, s) == \E j \in 1..(k - 1) : v.hist[j] = s

\* C3, as the spec states it: every VM enters Running only after it has been
\* in Configured, and enters Paused only from Running.
C3_AsStated ==
    \A i \in 1..Len(vms) : \A k \in 2..Len(vms[i].hist) :
        LET v == vms[i]
        IN /\ v.hist[k] = "Running" => Before(v, k, "Configured")
           /\ v.hist[k] = "Paused" => v.hist[k - 1] = "Running"

\* C3, amended: a VM made by build enters Running only after it has been in
\* Configured and enters Paused only from Running; a VM made by
\* build_from_snapshot is never Configured, enters Paused from Running or,
\* when load-snapshot is answered 204, from Spawned, and enters Running only
\* from Paused.  Killed may follow any state.
C3_LifecyclePerBuilder ==
    \A i \in 1..Len(vms) : \A k \in 2..Len(vms[i].hist) :
        LET v == vms[i]
        IN IF Restored(v)
           THEN /\ v.hist[k] # "Configured"
                /\ v.hist[k] = "Running" => v.hist[k - 1] = "Paused"
                /\ v.hist[k] = "Paused" =>
                      \/ v.hist[k - 1] = "Running"
                      \/ /\ v.hist[k - 1] = "Spawned"
                         /\ \E j \in 1..Len(v.reqs) :
                               IsLoad(v.reqs[j]) /\ v.reqs[j].status = StatusNoContent
           ELSE /\ v.hist[k] = "Running" => Before(v, k, "Configured")
                /\ v.hist[k] = "Paused" => v.hist[k - 1] = "Running"

\* A VM made by build was started and then paused, and a VM made by
\* build_from_snapshot is running; one of the VMs has been killed.
C3_Witness ==
    /\ \E i \in 1..Len(vms) :
          ~Restored(vms[i]) /\ "Paused" \in Range(vms[i].hist) /\ vms[i].state = "Killed"
    /\ \E i \in 1..Len(vms) : Restored(vms[i]) /\ vms[i].state = "Running"

\* C4: build and build_from_snapshot allocate a new root directory before
\* they create the VM, so no two VMs, live or killed, share a jail root or a
\* control-socket path.
C4_DistinctRoots ==
    /\ \A i \in 1..Len(vms) : \A j \in 1..Len(vms) :
          i # j => (vms[i].root # vms[j].root /\ vms[i].sock # vms[j].sock)
    /\ pc \in {"build_38", "bfs_77"} =>
          \A i \in 1..Len(vms) : vms[i].root # root_path

\* Two VMs exist, one made by each builder call, one killed and one live.
C4_Witness ==
    \E i \in 1..Len(vms) : \E j \in 1..Len(vms) :
        /\ ~Restored(vms[i]) /\ vms[i].state = "Killed"
        /\ Restored(vms[j]) /\ vms[j].returned /\ vms[j].state # "Killed"

\* C5: in SnapshotBuilder.create the session's timeout is disabled and the
\* jail's snapshot directory exists and is chown-ed before pause_to_snapshot
\* is called, and diff is true exactly when snapshot_type is DIFF.
C5_CreateOrder ==
    \A i \in 1..Len(vms) :
        /\ Len(vms[i].p2s) <= Len(vms[i].creates)
        /\ \A k \in 1..Len(vms[i].p2s) :
            LET c == vms[i].p2s[k]
            IN /\ \A m \in Methods : ~c.timed[m]
               /\ c.snapdir = "owned"
               /\ c.diff = (vms[i].creates[k].snapshot_type = "DIFF")

\* pause_to_snapshot was called for a DIFF snapshot.
C5_Witness ==
    \E i \in 1..Len(vms) : \E k \in 1..Len(vms[i].p2s) :
        vms[i].p2s[k].diff /\ vms[i].creates[k].snapshot_type = "DIFF"

\* C9: every get, put and patch sent before untime() goes through the
\* duration-limited wrapper and every one sent after it does not, for the
\* rest of the session's life; calling untime() again changes nothing.
C9_TimedUntilUntime ==
    \A i \in 1..Len(vms) :
        LET v == vms[i]
        IN /\ \A k \in 1..Len(v.reqs) :
                v.reqs[k].timed = (v.untimedAt = -1 \/ k <= v.untimedAt)
           /\ \A m \in Methods : v.timed[m] = (v.untimedAt = -1)
           /\ untime(untime(v)) = untime(v)
           /\ v.untimedAt # -1 => untime(v) = v

\* One session sent a timed put before untime() and, after it, an untimed
\* patch (by create) and an untimed get (by the test).
C9_Witness ==
    \E i \in 1..Len(vms) :
        LET r == vms[i].reqs
        IN /\ \E k \in 1..Len(r) : r[k].timed /\ r[k].method = "put"
           /\ \E k \in 1..Len(r) : ~r[k].timed /\ r[k].method = "patch"
           /\ \E k \in 1..Len(r) : ~r[k].timed /\ r[k].method = "get"

\* C10: the Session predicates are decided by the status code alone:
\* is_good_response for 200..299, is_status_ok for 200, is_status_no_content
\* for 204, is_status_bad_request for 400, is_status_not_found for 404.
C10_StatusPredicates ==
    verdict.done =>
        /\ verdict.good = (code \in 200..299)
        /\ verdict.ok = (code = 200)
        /\ verdict.no_content = (code = 204)
        /\ verdict.bad_request = (code = 400)
        /\ verdict.not_found = (code = 404)
        /\ code = 204 => (verdict.no_content /\ verdict.good /\ ~verdict.ok)
        /\ code = 400 => (verdict.bad_request /\ ~verdict.good /\ ~verdict.ok
                          /\ ~verdict.no_content /\ ~verdict.not_found)

\* Status 204 has been classified.
C10_Witness == verdict.done /\ code = 204 /\ verdict.no_content

\* C6: once stop() has been called on a started monitor, under every
\* interleaving with run() (stop() before run()'s first statement included),
\* the thread sees the flag and exits, the join completes and stop() returns.
C6_StopReturns == (spc = "stop_475") ~> (spc = "done")

C8_StopDrains ==
    spc = "done" =>
        /\ flushed_at >= 1
        /\ \A r \in 1..flushed_at : \E k \in 1..Len(forwarded) : forwarded[k].rec = r

\* stop() has returned after a final flush that forwarded two records or
\* more, the FlushMetrics record last.
C8_Witness ==
    /\ spc = "done"
    /\ \E k \in 2..Len(forwarded) :
          /\ forwarded[k].rec = flushed_at /\ forwarded[k].by = "stop"
          /\ forwarded[k - 1].by = "stop"

\* The disk files v's jail holds: one under each jail-relative path a disk
\* was linked to.
JailDisks(v) == {JailedPath(p) : p \in {q \in v.jail : q.name = "disk"}}

\* C11: build_from_snapshot sends load-snapshot only when the number of disk
\* files linked into the new jail is len(snapshot.disks): with any other
\* number it fails before the request.
C11_LoadOnlyWithAllDisksLinked ==
    \A i \in 1..Len(vms) : \A k \in 1..Len(vms[i].reqs) :
        IsLoad(vms[i].reqs[k]) =>
            Cardinality(JailDisks(vms[i])) = Len(snaps[vms[i].snapshot].disks)

\* C13: when build or build_from_snapshot fails after the VM process was
\* spawned, the caller holds a handle of the VM and can kill it: every
\* spawned, live VM that no builder call is working on has been returned.
C13_SpawnedVmReachable ==
    \A i \in 1..Len(vms) :
        (cur # i /\ vms[i].state \notin {"NotStarted", "Killed"}) => vms[i].returned

\* C12: SnapshotBuilder.create does not return a Snapshot for an empty disk
\* list, and build_from_snapshot sends no load-snapshot for a snapshot whose
\* disk list is empty.
C12_EmptyDiskListRejected ==
    /\ \A k \in 1..Len(snaps) : Len(snaps[k].disks) > 0
    /\ \A i \in 1..Len(vms) : \A k \in 1..Len(vms[i].reqs) :
          IsLoad(vms[i].reqs[k]) => Len(snaps[vms[i].snapshot].disks) > 0

\* The files a Snapshot references.
FilesOf(s) == {s.mem, s.vmstate} \cup Range(s.disks)

\* C14: once create has returned a Snapshot, no file it references (memory
\* file, state file, disk files) is written again: every write to one of
\* them was made before the Snapshot was returned.
C14_SnapshotFilesNotModified ==
    \A k \in 1..Len(snaps) : \A w \in written :
        w.file \in FilesOf(snaps[k]) => w.n < k

\* The VM that captured snapshot s.
Capturer(s) == vms[s.vm]

\* C15: when build_from_snapshot sends load-snapshot for a snapshot, the
\* capturing VM has not run since create returned the snapshot: it has stayed
\* paused or was killed.
C15_CapturerNotResumedBeforeLoad ==
    \A i \in 1..Len(vms) : \A k \in 1..Len(vms[i].reqs) :
        IsLoad(vms[i].reqs[k]) =>
            LET s == snaps[vms[i].snapshot]
            IN \A j \in (s.at + 1)..Len(Capturer(s).hist) :
                  Capturer(s).hist[j] # "Running"

\* The snapshot a chain of bases ends in.
RECURSIVE ChainRoot(_)
ChainRoot(k) == IF snaps[k].base = 0 THEN k ELSE ChainRoot(snaps[k].base)

\* C16: every DIFF snapshot that is loaded was captured first of all or has
\* been rebased on the snapshot captured just before it (the one its VM was
\* loaded from), and its chain of bases ends in a FULL snapshot.
C16_DiffChainRootedInFull ==
    \A i \in 1..Len(vms) : \A k \in 1..Len(vms[i].reqs) :
        LET n == vms[i].snapshot
            s == snaps[n]
        IN (IsLoad(vms[i].reqs[k]) /\ s.snapshot_type = "DIFF") =>
            /\ Restored(Capturer(s)) =>
                  (s.base = Capturer(s).snapshot /\ s.base < n)
            /\ snaps[ChainRoot(n)].snapshot_type = "FULL"

\* C17: the Snapshot create returns has the caller's disk list unchanged, the
\* files vm.mem and vm.vmstate of the capturing VM's jail snapshot directory
\* (the ones pause_to_snapshot was told to write) as memory and state paths,
\* and as ssh key a copy made for it, at a path that is neither the original
\* key's nor another copy's; create writes neither the original key nor a disk.
C17_CreateResult ==
    /\ \A k \in 1..Len(snaps) :
          LET s == snaps[k]
              c == Capturer(s)
              call == c.creates[s.call]
              p == c.p2s[s.call]
          IN /\ Len(s.disks) = Len(call.disks)
             /\ \A j \in 1..Len(s.disks) : s.disks[j] = DiskPath(call.disks[j])
             /\ s.mem = [dir |-> c.root, sub |-> "snapshot", name |-> "vm.mem", idx |-> 0]
             /\ s.vmstate = [dir |-> c.root, sub |-> "snapshot", name |-> "vm.vmstate", idx |-> 0]
             /\ s.mem = InChroot(c.root, p.mem_file_path)
             /\ s.vmstate = InChroot(c.root, p.snapshot_path)
             /\ s.ssh_key # SshKey
             /\ \A k2 \in 1..Len(snaps) : k2 # k => snaps[k2].ssh_key # s.ssh_key
             /\ \A w \in written : w.file = s.ssh_key => (w.by = "create" /\ w.n = k - 1)
    /\ \A w \in written :
          w.by = "create" => (w.file # SshKey /\ w.file.name # "disk")

\* create has returned two Snapshots, the first for a list of two disks.
C17_Witness ==
    /\ Len(snaps) = 2
    /\ Len(snaps[1].disks) = 2
    /\ snaps[1].disks[1] # snaps[1].disks[2]

\* C18: the background task never ends with an error: a failure of a
\* periodic flush does not escape run().
C18_RunNeverRaises == tpc # "raised"

\* The requests of log r that satisfy P.
Those(r, P(_)) == {k \in 1..Len(r) : P(r[k])}

IsMetricsPut(r) == r.req.api = "metrics"

IsTestCall(r) == r.at = "idle" /\ r.req.api # "actions"

\* C19: build_from_snapshot sends each of its requests (metrics, load,
\* Resumed patch) once at most; every call of a test on a session sends one
\* request; and a request that is rejected or gets no response is the last
\* one on its session, the failure ending the call and the test.
C19_SentOnceNeverResent ==
    \A i \in 1..Len(vms) :
        LET r == vms[i].reqs
        IN /\ Cardinality(Those(r, IsMetricsPut)) <= 1
           /\ Cardinality(Those(r, IsLoad)) <= 1
           /\ Cardinality(Those(r, IsBfsPatch)) <= 1
           /\ Cardinality(Those(r, IsTestCall)) = vms[i].ncalls
           /\ \A k \in 1..Len(r) :
                 ~is_good_response(r[k].status) => (k = Len(r) /\ pc = "failed")

\* One session sent a request of the test; a load-snapshot request on
\* another got no response, and build_from_snapshot failed.
C19_Witness ==
    /\ pc = "failed"
    /\ \E i \in 1..Len(vms) : vms[i].ncalls = 1
    /\ \E i \in 1..Len(vms) :
          LET r == vms[i].reqs
          IN Len(r) = 2 /\ IsLoad(r[2]) /\ r[2].status = NoResponse

\* C20: among the predicates the Session installs there is one for payload
\* too large, and it holds for status 413 and for no other code.
C20_PayloadTooLargePredicate ==
    verdict.done =>
        /\ "payload_too_large" \in DOMAIN verdict
        /\ verdict.payload_too_large = (code = 413)

\* ------------------------------------------------- the VM's metrics stream
\* The VM flushes its metrics at InstanceStart (test_process_startup_time.py
\* line 66, test_shut_down.py lines 40-41): one record.
Vm_instance_start ==
    /\ life = "configured"
    /\ emitted < MaxRecords
    /\ life' = "running"
    /\ emitted' = emitted + 1
    /\ UNCHANGED <<running, metrics_index, tpc, spc, tpending, spending,
                   forwarded, ticks, flushed_at>>
    /\ UNCHANGED <<builderVars, httpVars, lines, prev_lines, testVars2>>

\* The guest reboots (test_shut_down.py lines 44-56): the VM flushes its
\* metrics once more and exits.
Guest_reboot ==
    /\ life = "running"
    /\ emitted < MaxRecords
    /\ life' = "exited"
    /\ emitted' = emitted + 1
    /\ UNCHANGED <<running, metrics_index, tpc, spc, tpending, spending,
                   forwarded, ticks, flushed_at>>
    /\ UNCHANGED <<builderVars, httpVars, lines, prev_lines, testVars2>>

\* A test sends the FlushMetrics action (FcDeviceMetrics.validate, line 329,
\* through microvm.flush_metrics): the running VM writes one record.
Vm_flush_metrics ==
    /\ life = "running"
    /\ emitted < MaxRecords
    /\ emitted' = emitted + 1
    /\ UNCHANGED <<running, metrics_index, tpc, spc, tpending, spending,
                   forwarded, ticks, flushed_at>>
    /\ UNCHANGED <<builderVars, httpVars, metVars, testVars2>>

\* The test calls vm.get_all_metrics() and keeps the result
\* (test_shut_down.py lines 40 and 55).
Test_get_all_metrics ==
    /\ lines' = get_all_metrics
    /\ prev_lines' = lines
    /\ UNCHANGED <<builderVars, httpVars, monVars, life, testVars2>>

\* The monitor and a test reading the metrics of the same VM.
MetricsNext ==
    \/ MonNext
    \/ Vm_instance_start \/ Guest_reboot \/ Vm_flush_metrics
    \/ Test_get_all_metrics

MetricsSpec == MonInit /\ [][MetricsNext]_vars

IsPrefix(s, t) == Len(s) <= Len(t) /\ SubSeq(t, 1, Len(s)) = s

\* The records numbered a+1 .. b, oldest first.
RecordsSince(a, b) == [k \in 1..(b - a) |-> a + k]

\* C21: get_all_metrics is cumulative: what a call returned is a prefix of
\* what every later call returns; a flush (at InstanceStart, at guest
\* shutdown, by the FlushMetrics action of a test or of stop()) appends
\* exactly one record; and the slice of a result from a remembered index
\* (the length of an earlier result, or the monitor's metrics_index) is
\* exactly the records written since that index was recorded.
C21_MetricsCumulative ==
    [][/\ IsPrefix(lines, lines')
       /\ IsPrefix(prev_lines', lines')
       /\ IsPrefix(lines, get_all_metrics')
       /\ (Vm_instance_start \/ Guest_reboot \/ Vm_flush_metrics \/ Stop_put)
            => get_all_metrics' = Append(get_all_metrics, emitted + 1)
       /\ lines' # lines
            => SubSeq(lines', Len(lines) + 1, Len(lines'))
                 = RecordsSince(Len(lines), emitted)
       /\ (tpc = "run_456" /\ tpc' = "run_457")
            => tpending' = RecordsSince(metrics_index, emitted)]_vars

\* Two calls, the VM having started before the first and rebooted before
\* the second, which returned more than the first.
C21_Witness ==
    /\ life = "exited"
    /\ prev_lines # <<>>
    /\ Len(lines) > Len(prev_lines)
    /\ metrics_index > 0

\* ------------------------------------------------ metadata service tokens
\* Mutant of MmdsTokenValid: a restored VM also honours the tokens of the VM
\* its snapshot was taken from.
MmdsTokenValid_kept_by_snapshot(token, i) ==
    \/ token = i
    \/ /\ vms[i].kind = "restored"
       /\ vms[i].snapshot # 0
       /\ snaps[vms[i].snapshot].vm = token

\* Whether the metadata service of VM i accepts a token: it accepts the
\* tokens it minted itself; what it minted is not part of a snapshot.
MmdsTokenValid(token, i) == token = i

\* _generate_mmds_session_token (test_mmds.py lines 729-733 and 782-786): the
\* guest of the VM the test holds asks for a token; the test keeps it.
Mmds_generate_token ==
    /\ pc = "idle"
    /\ \E i \in 1..Len(vms) :
        /\ Held(i)
        /\ vms[i].state = "Running"
        /\ i \notin tokens
        /\ tokens' = tokens \cup {i}
    /\ UNCHANGED <<builderVars, httpVars, monVars, metVars, curl, testVars3>>

\* The guest's GET of latest/meta-data/ with a token the test has
\* (test_mmds.py lines 735-742, 759-762, 774-780, 788-795).
Mmds_get ==
    /\ pc = "idle"
    /\ \E i \in 1..Len(vms), token \in tokens :
        /\ Held(i)
        /\ vms[i].state = "Running"
        /\ curl' = curl \cup {[token |-> token, on |-> i,
                                snapshots |-> Len(vms[i].creates),
                                out |-> IF MmdsTokenValid(token, i)
                                        THEN "ami-id"
                                        ELSE "MMDS token not valid."]}
    /\ UNCHANGED <<builderVars, httpVars, monVars, metVars, tokens, testVars3>>

\* The harness with the guests' use of the metadata service.
MmdsNext == Next \/ Mmds_generate_token \/ Mmds_get

MmdsSpec == Init /\ [][MmdsNext]_vars

\* C22: a token is accepted on the VM that minted it, before that VM is
\* snapshotted and after it is resumed following the snapshot; it is refused
\* with "MMDS token not valid." on a VM restored from that VM's snapshot; a
\* token minted on the restored VM is accepted there.
C22_TokensDoNotSurviveRestore ==
    \A c \in curl :
        /\ c.token = c.on => c.out = "ami-id"
        /\ (/\ vms[c.on].kind = "restored"
            /\ snaps[vms[c.on].snapshot].vm = c.token)
             => c.out = "MMDS token not valid."

\* The test's four GETs: on the base VM before and after the snapshot, and
\* on the VM restored from it with the old token and with a new one.
C22_Witness ==
    \E b \in tokens, r \in tokens :
        /\ vms[r].kind = "restored"
        /\ snaps[vms[r].snapshot].vm = b
        /\ \E c \in curl : c.token = b /\ c.on = b /\ c.snapshots = 0
        /\ \E c \in curl : c.token = b /\ c.on = b /\ c.snapshots > 0
        /\ \E c \in curl : c.token = b /\ c.on = r
        /\ \E c \in curl : c.token = r /\ c.on = r

\* ------------------------------------------------ test_snapshot_version.py
\* test_snapshot_version.py line 14.
FC_V0_23_MAX_DEVICES_ATTACHED == 11

\* The version argument of pause_to_snapshot; "none": not given.
Versions == {"none", "invalid", "0.22.0", "0.23.0"}

\* The VMM's answer to snapshot-create for a target version, on a VM with
\* so many devices attached.
VmmSnapshotCreate(version, devices) ==
    IF version = "invalid"
    THEN [status |-> StatusBadRequest, text |-> "Invalid microVM version format"]
    ELSE IF version = "0.22.0"
    THEN [status |-> StatusBadRequest,
          text |-> "Cannot translate microVM version to snapshot data version"]
    ELSE IF version = "0.23.0" /\ devices > FC_V0_23_MAX_DEVICES_ATTACHED
    THEN [status |-> StatusBadRequest, text |-> "Too many devices attached"]
    ELSE [status |-> StatusNoContent, text |-> ""]

\* Mutant of pause_to_snapshot_version: the assertion carries no message.
pause_to_snapshot_version_no_text(v, mem, vmstate, diff, version, st1, answer) ==
    LET r == pause_to_snapshot(v, mem, vmstate, diff, st1, answer.status)
    IN [vm |-> r.vm, ok |-> r.ok, files |-> r.files, error |-> ""]

\* Microvm.pause_to_snapshot with a version: as without one; when
\* snapshot-create is not answered 204, the AssertionError raised carries the
\* text of the response.
pause_to_snapshot_version(v, mem, vmstate, diff, version, st1, answer) ==
    LET r == pause_to_snapshot(v, mem, vmstate, diff, st1, answer.status)
    IN [vm |-> r.vm, ok |-> r.ok, files |-> r.files,
        error |-> IF st1 = StatusNoContent /\ ~r.ok THEN answer.text ELSE ""]

\* _create_and_start_microvm_with_net_devices, lines 20-23: spawn, then
\* basic_config, which configures the boot source and adds the root device.
Ver_spawn_basic_config ==
    /\ vpc = "line_20"
    /\ tvm' = SetState(SetState(tvm, "Spawned"), "Configured")
    /\ attached' = 1
    /\ vpc' = "line_27"
    /\ UNCHANGED <<builderVars, httpVars, monVars, metVars, tokVars, testVars4>>
    /\ UNCHANGED <<devices_no, attempts>>

\* Mutant of Ver_ssh_network_config: the loop runs once more.
Ver_ssh_network_config_once_more ==
    /\ vpc = "line_27"
    /\ attached - 1 <= devices_no
    /\ attached' = attached + 1
    /\ UNCHANGED <<builderVars, httpVars, monVars, metVars, tokVars, testVars4>>
    /\ UNCHANGED <<tvm, devices_no, vpc, attempts>>

\* lines 27-32: for i in range(devices_no), one network device is added
\* (i is the number of network devices there are already).
Ver_ssh_network_config ==
    /\ vpc = "line_27"
    /\ attached - 1 < devices_no
    /\ attached' = attached + 1
    /\ UNCHANGED <<builderVars, httpVars, monVars, metVars, tokVars, testVars4>>
    /\ UNCHANGED <<tvm, devices_no, vpc, attempts>>

\* line 33, once the loop is over: test_microvm.start().
Ver_start ==
    /\ vpc = "line_27"
    /\ attached - 1 >= devices_no
    /\ tvm' = SetState(Sent(tvm, "put", [api |-> "actions",
                                         action_type |-> "InstanceStart"],
                            StatusNoContent), "Running")
    /\ vpc' = "started"
    /\ UNCHANGED <<builderVars, httpVars, monVars, metVars, tokVars, testVars4>>
    /\ UNCHANGED <<devices_no, attached, attempts>>

\* test_microvm.pause_to_snapshot(..., version=...) on the started VM
\* (lines 95-99, 148-152, 162-166); the test goes on after a failure
\* (lines 153-156).  The VMM pauses a VM that runs or is paused already.
Ver_pause_to_snapshot ==
    /\ vpc = "started"
    /\ Len(attempts) < MaxAttempts
    /\ \E version \in Versions, diff \in BOOLEAN :
        LET r == pause_to_snapshot_version(tvm, MemFilePath, VmstatePath, diff,
                     version, StatusNoContent,
                     VmmSnapshotCreate(version, attached))
        IN /\ tvm' = r.vm
           /\ attempts' = Append(attempts,
                  [version |-> version, devices |-> attached, ok |-> r.ok,
                   error |-> r.error, files |-> r.files,
                   status |-> r.vm.reqs[Len(r.vm.reqs)].status])
    /\ UNCHANGED <<builderVars, httpVars, monVars, metVars, tokVars, testVars4>>
    /\ UNCHANGED <<devices_no, attached, vpc>>

VersionInit ==
    /\ BuilderInit
    /\ code = 0
    /\ verdict = [done |-> FALSE]
    /\ MonIdle
    /\ TestIdleBut("version")
    /\ \E n \in 0..MaxDevicesNo : VerStart(n)

VersionNext ==
    \/ Ver_spawn_basic_config \/ Ver_ssh_network_config \/ Ver_start
    \/ Ver_pause_to_snapshot

VersionSpec == VersionInit /\ [][VersionNext]_vars

\* C23: pause_to_snapshot with version "invalid" fails with "Invalid microVM
\* version format"; a following call on the same VM with version "0.22.0"
\* fails with "Cannot translate microVM version to snapshot data version";
\* a failed call produces no snapshot file and leaves the VM paused, and the
\* next call is answered for its own version.
C23_InvalidVersions ==
    \A k \in 1..Len(attempts) :
        LET a == attempts[k]
        IN /\ a.version = "invalid"
                => ~a.ok /\ a.error = "Invalid microVM version format"
           /\ (a.version = "0.22.0" /\ k > 1 /\ attempts[k - 1].version = "invalid")
                => /\ ~a.ok
                   /\ a.error = "Cannot translate microVM version to snapshot data version"
           /\ ~a.ok => a.files = {} /\ a.status = StatusBadRequest
           /\ (k > 1 /\ ~attempts[k - 1].ok)
                => a.ok = (VmmSnapshotCreate(a.version, a.devices).status
                             = StatusNoContent)
           /\ tvm.state = "Paused"

\* The two calls of test_create_invalid_version, both failed.
C23_Witness ==
    /\ Len(attempts) = 2
    /\ attempts[1].version = "invalid" /\ ~attempts[1].ok
    /\ attempts[2].version = "0.22.0" /\ ~attempts[2].ok
    /\ attempts[2].error # attempts[1].error

Context(c) == [microvm |-> c[1], kernel |-> c[2], disk |-> c[3], custom |-> "custom"]

\* Mutant of NextCell: the first set varies fastest.
NextCell_first_fastest(c) ==
    IF c[1] < asets[1] THEN <<c[1] + 1, c[2], c[3]>>
    ELSE IF c[2] < asets[2] THEN <<1, c[2] + 1, c[3]>>
    ELSE <<1, 1, c[3] + 1>>

\* The combination after c, as nested loops over the sets reach it: the
\* last set is the innermost loop.
NextCell(c) ==
    IF c[3] < asets[3] THEN <<c[1], c[2], c[3] + 1>>
    ELSE IF c[2] < asets[2] THEN <<c[1], c[2] + 1, 1>>
    ELSE <<c[1] + 1, 1, 1>>

InSets(c) == \A k \in 1..3 : c[k] <= asets[k]

\* run_test invokes the closure with the context of the current combination.
Matrix_invoke ==
    /\ mpc = "run"
    /\ InSets(cell)
    /\ mcalls' = Append(mcalls, Context(cell))
    /\ mpc' = "closure"
    /\ UNCHANGED <<builderVars, httpVars, monVars, metVars, tokVars, verVars, testVars5>>
    /\ UNCHANGED <<asets, cell>>

\* The closure returns; run_test goes on to the next combination.
Matrix_closure_returns ==
    /\ mpc = "closure"
    /\ cell' = NextCell(cell)
    /\ mpc' = "run"
    /\ UNCHANGED <<builderVars, httpVars, monVars, metVars, tokVars, verVars, testVars5>>
    /\ UNCHANGED <<asets, mcalls>>

\* No combination is left: run_test returns.
Matrix_return ==
    /\ mpc = "run"
    /\ ~InSets(cell)
    /\ mpc' = "done"
    /\ UNCHANGED <<builderVars, httpVars, monVars, metVars, tokVars, verVars, testVars5>>
    /\ UNCHANGED <<asets, cell, mcalls>>

MatrixInit ==
    /\ BuilderInit
    /\ code = 0
    /\ verdict = [done |-> FALSE]
    /\ MonIdle
    /\ TestIdleBut("matrix")
    /\ \E a \in 0..MaxArtifacts, b \in 0..MaxArtifacts, c \in 0..MaxArtifacts :
        MatStart(<<a, b, c>>)

MatrixNext == Matrix_invoke \/ Matrix_closure_returns \/ Matrix_return

MatrixSpec == MatrixInit /\ [][MatrixNext]_vars

\* The k-th element (from 1) of the cartesian product of the sets in
\* lexicographic order, the first set varying slowest.
Lexicographic(k) ==
    <<((k - 1) \div (asets[2] * asets[3])) + 1,
      (((k - 1) \div asets[3]) % asets[2]) + 1,
      ((k - 1) % asets[3]) + 1>>

Abs(x) == IF x < 0 THEN 0 - x ELSE x

\* fcmetrics.py lines 235-236: math.floor(utc_time.timestamp() * 1000).
UtcTimestampMs(us) == us \div 1000

\* Mutant of Validate_timestamp: a difference of one second is accepted.
Validate_timestamp_inclusive ==
    /\ vres = "none"
    /\ ~schema_checked
    /\ vres' = IF Abs(UtcTimestampMs(utc_us) - record.utc_timestamp_ms) <= 1000
               THEN "timestamp_ok" ELSE "AssertionError"
    /\ UNCHANGED <<builderVars, httpVars, monVars, metVars, tokVars, verVars, matVars, testVars6>>
    /\ UNCHANGED <<utc_us, record, schema_checked>>

\* lines 235-242: the timestamp is checked first.
Validate_timestamp ==
    /\ vres = "none"
    /\ ~schema_checked
    /\ vres' = IF Abs(UtcTimestampMs(utc_us) - record.utc_timestamp_ms) < 1000
               THEN "timestamp_ok" ELSE "AssertionError"
    /\ UNCHANGED <<builderVars, httpVars, monVars, metVars, tokVars, verVars, matVars, testVars6>>
    /\ UNCHANGED <<utc_us, record, schema_checked>>

\* lines 264-281: the schema is built and jsonschema.validate is called.
Validate_schema ==
    /\ vres = "timestamp_ok"
    /\ schema_checked' = TRUE
    /\ vres' = IF record.fits_schema THEN "passed" ELSE "ValidationError"
    /\ UNCHANGED <<builderVars, httpVars, monVars, metVars, tokVars, verVars, matVars, testVars6>>
    /\ UNCHANGED <<utc_us, record>>

\* The host's clock at MaxTimestamp / 2 ms, at the start and at the end of
\* that millisecond.
ValidateInit ==
    /\ BuilderInit
    /\ code = 0
    /\ verdict = [done |-> FALSE]
    /\ MonIdle
    /\ TestIdleBut("validate")
    /\ \E f \in {0, 999}, ts \in 0..MaxTimestamp, fits \in BOOLEAN :
        ValStart((MaxTimestamp \div 2) * 1000 + f, ts, fits)

ValidateNext == Validate_timestamp \/ Validate_schema

ValidateSpec == ValidateInit /\ [][ValidateNext]_vars

\* The difference the claim is about, in whole milliseconds.
Skew == Abs((utc_us \div 1000) - record.utc_timestamp_ms)

\* C26: validate_fc_metrics accepts a record only if its utc_timestamp_ms
\* is less than 1000 ms away from the current UTC time in whole
\* milliseconds; at 1000 ms or more it fails before any schema check.
C26_TimestampWithinOneSecond ==
    /\ vres = "passed" => Skew < 1000
    /\ (vres # "none" /\ Skew >= 1000)
         => vres = "AssertionError" /\ ~schema_checked
    /\ (vres # "none" /\ Skew < 1000) => vres # "AssertionError"
    /\ schema_checked => Skew < 1000

\* A record exactly one second off, refused.
C26_Witness ==
    /\ vres = "AssertionError"
    /\ Skew = 1000
    /\ ~schema_checked

\* ------------------------------------------- the monitor's stop, step by step
\* stop() has cleared the flag and run() has not set it again.
Cleared == spc # "none" /\ ~running

\* The thread is inside the while loop of run().
InLoop == tpc \in {"run_481", "run_456", "run_457", "run_488", "run_489"}

\* The thread starts a flush: it calls _flush_metrics (line 482).
StartsFlush == tpc = "run_456" /\ tpc' = "run_457"

\* What the thread does between two flushes and on noticing the flag: a
\* sleep tick taken with the flag cleared is the last one, the loop test
\* with the flag cleared ends the thread, and with the flag set the for loop
\* is left after exactly Timer ticks, counted from the end of the flush.
TicksAndExit ==
    /\ (Cleared /\ tpc = "run_489") => tpc' \in {"run_489", "run_481"}
    /\ (Cleared /\ tpc = "run_481") => tpc' \in {"run_481", "done"}
    /\ (tpc = "run_457" /\ tpc' = "run_488") => ticks' = 0
    /\ (tpc = "run_488" /\ tpc' = "run_489") => ticks' = ticks + 1
    /\ (running /\ tpc = "run_489" /\ tpc' = "run_481") => ticks = Timer
    /\ (running /\ tpc = "run_489" /\ tpc' = "run_488") => ticks < Timer
    /\ (tpc = "run_489" /\ tpc' = "run_489") => ticks' = ticks

\* C27, as stated: once the flag has been cleared while the thread is inside
\* its loop, the thread starts no new flush; it sleeps at most one more tick
\* and exits; with no stop requested, Timer ticks separate two flushes.
C27_AsStated ==
    /\ [][((Cleared /\ InLoop) => ~StartsFlush) /\ TicksAndExit]_vars
    /\ (Cleared /\ InLoop) ~> (tpc = "done")

\* C27: once the flag has been cleared while the thread is inside its loop,
\* the thread starts a flush only if it had already passed the loop test
\* (line 481) when the flag was cleared, so at most one; it sleeps at most
\* one more tick and exits; with the flag set, exactly Timer ticks separate
\* two consecutive flushes.
C27_AtMostOneMoreFlush ==
    /\ [][/\ (Cleared /\ tpc' = "run_456") => tpc = "run_456"
          /\ (Cleared /\ tpc = "run_457") => tpc' \in {"run_457", "run_488"}
          /\ TicksAndExit]_vars
    /\ (Cleared /\ InLoop) ~> (tpc = "done")

\* The thread has ended after stop() cleared the flag during its loop, a
\* record forwarded and a tick slept.
C27_Witness ==
    /\ spc = "stop_475"
    /\ tpc = "done"
    /\ ~running
    /\ ticks >= 1
    /\ forwarded # <<>>

\* ------------------------------------------------ what reaches the logger
\* How many of the records forwarded so far had the group exported.
RECURSIVE Exports(_, _)
Exports(group, n) ==
    IF n = 0 THEN 0
    ELSE Exports(group, n - 1)
           + (IF group \in Range(forwarded[n].put) THEN 1 ELSE 0)

\* C28: over the records of one VM given to flush_fc_metrics_to_cw,
\* api_server and latencies_us are exported once in all, utc_timestamp_ms
\* never, and every other group once per record.
C28_ExportOnceGroups ==
    \A group \in Range(Groups) :
        Exports(group, Len(forwarded)) =
            IF group = "utc_timestamp_ms" THEN 0
            ELSE IF group \in metrics_to_export_once
            THEN (IF forwarded = <<>> THEN 0 ELSE 1)
            ELSE Len(forwarded)

\* ------------------------------------------------ check_guest_cpuid_output
\* utils_cpuid.py lines 43-70: the loop over the lines of the output, with
\* the header still to match ("": none) and the dictionary as it stands.
\* The result is whether no comparison failed, and the dictionary.
RECURSIVE ReadLines(_, _, _)
ReadLines(stdout, expected_header, expected) ==
    IF stdout = <<>> THEN [ok |-> TRUE, store |-> expected]
    ELSE IF DOMAIN expected = {} THEN [ok |-> TRUE, store |-> expected]
    ELSE LET line == Head(stdout)
         IN IF expected_header # ""
            THEN ReadLines(Tail(stdout),
                           IF line = [k |-> expected_header, v |-> 0]
                           THEN "" ELSE expected_header,
                           expected)
            ELSE IF line.v = 0
            THEN ReadLines(Tail(stdout), expected_header, expected)
            ELSE IF line.k \in DOMAIN expected
            THEN IF line.v = expected[line.k]
                 THEN ReadLines(Tail(stdout), expected_header,
                                [key \in DOMAIN expected \ {line.k} |-> expected[key]])
                 ELSE [ok |-> FALSE, store |-> expected]
            ELSE ReadLines(Tail(stdout), expected_header, expected)

\* check_guest_cpuid_output, lines 35-74: the loop, then the assertion that
\* no expected key is left.
check_guest_cpuid_output(stdout, expected_header, expected) ==
    LET r == ReadLines(stdout, expected_header, expected)
    IN [ok |-> r.ok /\ DOMAIN r.store = {}, store |-> r.store]

\* test_topology.py lines 59-64: the next of the three calls made with
\* expected_level_1_topology; the dictionary is the caller's own object, so
\* what the call deletes is gone for the caller too.  A failed assertion
\* ends the test.
Cache_check ==
    /\ Len(cres) < Len(Headers)
    /\ \A k \in 1..Len(cres) : cres[k] = "passed"
    /\ LET r == check_guest_cpuid_output(guest, Headers[Len(cres) + 1], store)
       IN /\ store' = r.store
          /\ cres' = Append(cres, IF r.ok THEN "passed" ELSE "AssertionError")
    /\ UNCHANGED <<builderVars, httpVars, monVars, metVars, tokVars, verVars, matVars, valVars, testVars7>>
    /\ UNCHANGED guest

\* What a guest can report for a cache.
GuestValues == {1, 2}

CpuidInit ==
    /\ BuilderInit
    /\ code = 0
    /\ verdict = [done |-> FALSE]
    /\ MonIdle
    /\ TestIdleBut("cpuid")
    /\ \E level \in [1..3 -> GuestValues], sharing \in [1..3 -> GuestValues] :
        CpuidStart(CpuidOutput(level, sharing))

CpuidNext == Cache_check

CpuidSpec == CpuidInit /\ [][CpuidNext]_vars

\* Whether the guest's output for cache n (from 1) is what is expected.
CacheAsExpected(n) ==
    /\ guest[3 * n - 1].v = ExpectedLevel1["level"]
    /\ guest[3 * n].v = ExpectedLevel1["sharing"]

\* C29: check_guest_cpuid_output leaves the caller's dictionary as it was,
\* so each of the three calls made with the level-1 dictionary compares the
\* guest's output with every expected key: the three calls all pass only if
\* the guest reports the expected values for cache 0, cache 1 and cache 2.
C29_DictionaryUnchanged ==
    /\ store = ExpectedLevel1
    /\ \A n \in 1..Len(cres) : cres[n] = "passed" => CacheAsExpected(n)

\* ------------------------------ FcDeviceMetrics.validate_per_device_metrics
\* Python's `sub in name` and name.startswith(prefix), on strings as
\* sequences of characters.
Contains(name, sub) ==
    \E i \in 0..(Len(name) - Len(sub)) : SubSeq(name, i + 1, i + Len(sub)) = sub

StartsWith(name, prefix) ==
    Len(prefix) <= Len(name) /\ SubSeq(name, 1, Len(prefix)) = prefix

\* fcmetrics.py lines 345-348: the groups the loop counts and sums.
Counted(name) ==
    /\ Contains(name, dev_name \o <<"_">>)
    /\ StartsWith(name, dev_name)

\* The field-by-field sum of the groups named in S (lines 350-353): a field
\* is there once a group with it was added; the groups have the one field f.
RECURSIVE SumF(_)
SumF(S) ==
    IF S = {} THEN 0
    ELSE LET name == CHOOSE x \in S : TRUE
         IN fc_metrics[name]["f"] + SumF(S \ {name})

Calculated(S) == IF S = {} THEN <<>> ELSE [field \in {"f"} |-> SumF(S)]

\* validate_per_device_metrics, lines 342-358.
Validate_per_device_metrics ==
    /\ dres = "none"
    /\ LET counted == {name \in DOMAIN fc_metrics : Counted(name)}
           actual_num_devices == Cardinality(counted)
           metrics_calculated == Calculated(counted)
       IN dres' = IF num_dev # actual_num_devices THEN "AssertionError"
                  ELSE IF aggr_supported /\ fc_metrics[dev_name] # metrics_calculated
                  THEN "AssertionError"
                  ELSE "passed"
    /\ UNCHANGED <<builderVars, httpVars, monVars, metVars, tokVars, verVars, matVars, valVars, cpuidVars>>
    /\ UNCHANGED <<dev_name, num_dev, aggr_supported, fc_metrics>>

\* Group names: the strings of one to MaxNameLen characters over a letter
\* and the underscore.
Names == UNION {[1..n -> {"n", "_"}] : n \in 1..MaxNameLen}

DevNames == {<<"n">>, <<"n", "n">>}

\* A record: the aggregate group of the device and at most two other groups.
DeviceInit ==
    /\ BuilderInit
    /\ code = 0
    /\ verdict = [done |-> FALSE]
    /\ MonIdle
    /\ TestIdleBut("device")
    /\ \E name \in DevNames, num \in 0..MaxNumDev, aggr \in BOOLEAN,
          total \in 0..(2 * MaxValue),
          others \in {S \in SUBSET (Names \ DevNames) : Cardinality(S) <= 2} :
        \E values \in [others -> 1..MaxValue] :
            DevStart(name, num, aggr,
                     [g \in others \cup {name} |->
                        IF g = name THEN [field \in {"f"} |-> total]
                        ELSE [field \in {"f"} |-> values[g]]])

DeviceNext == Validate_per_device_metrics

DeviceSpec == DeviceInit /\ [][DeviceNext]_vars

\* The groups named dev_name, "_" and a suffix.
PerDevice == {name \in DOMAIN fc_metrics : StartsWith(name, dev_name \o <<"_">>)}

\* C30: validate_per_device_metrics passes exactly when the groups named
\* dev_name + "_" + suffix are num_dev in number and, if aggregation is
\* supported, the group named dev_name is their field-by-field sum; no
\* other group is counted or summed.
C30_PerDeviceGroupsOnly ==
    dres # "none" =>
        (dres = "passed") =
            (/\ Cardinality(PerDevice) = num_dev
             /\ aggr_supported => fc_metrics[dev_name] = Calculated(PerDevice))
====
